---- MODULE Spec2Model ----
(***************************************************************************)
(* Voice-assistant audio relay of the grocery-inventory application.       *)
(*                                                                         *)
(* Several parts of the program are modelled, each with its own            *)
(* specification over the shared state:                                    *)
(*   SpecRelay    the relay server session (liveSession.js, gemini.js,     *)
(*                tts.js, tools.js): streamed deltas, the spoken buffer,   *)
(*                speech synthesis calls and the messages sent to the      *)
(*                client;                                                  *)
(*   SpecTools    the client's tool dispatch (connectToLiveChef.onmessage, *)
(*                the LiveAssistant wrappers and App.handleVoiceToolUse);  *)
(*   SpecPlayback the client's scheduling of inbound audio chunks          *)
(*                (LiveAssistant onAudioData);                             *)
(*   SpecSession  the lifecycle of the LiveAssistant component: starts,    *)
(*                stops, transport events;                                 *)
(*   SpecVoice    the microphone windows and the silence timer;            *)
(*   SpecMonitor  the interaction-state interval;                          *)
(*   SpecCodec    the 16-bit PCM conversions;                              *)
(*   SpecRelayTurns  the relay session over several user messages;         *)
(*   SpecStop     the lifecycle together with the playback sources;        *)
(*   SpecToolStop the tool dispatch of a session that is stopped;          *)
(*   SpecSync, SpecSyncReset, SpecSyncLive  the cloud sync engine of App   *)
(*                on two devices;                                          *)
(*   SpecInventory  the updateInventory tool of App.                       *)
(*                                                                         *)
(* JavaScript runs every callback to its next await without interruption,  *)
(* so each action below is one such run: the synchronous part of a handler *)
(* or the continuation after one await.                                    *)
(***************************************************************************)
EXTENDS Naturals, Integers, Sequences, FiniteSets, TLC

VARIABLES
    \* ---- relay server session (createLiveSession) ----
    conversation,   \* liveSession.js `conversation`: one entry per user message
    spokenBuffer,   \* liveSession.js `spokenBuffer`: the deltas it is made of, in order
    streamState,    \* per turn: "open" | "ended" | "errored" (streamGemini's read loop)
    tts,            \* synthesizeSpeech calls in issue order, with their outcome
    out,            \* messages the relay has sent on the socket, in order
    \* ---- client tool dispatch ----
    calls,          \* tool calls received, in arrival order, with their progress
    completed,      \* indices of the calls whose callback is over, in completion order
    transcripts,    \* setTranscripts entries added by the tool wrapper
    sent,           \* sendToolResponse payloads handed to the transport, in order
    stoppedAt,      \* number of sendToolResponse calls made when disconnect() closed
                    \* the session, NoStop before
    \* ---- client playback (LiveAssistant onAudioData) ----
    clock,          \* audioContextRef.current.currentTime
    nextStartTime,  \* nextStartTimeRef.current
    decoding,       \* the chunk whose onAudioData call is at its await, or NoChunk
    arrived,        \* number of audio chunks received
    scheduled,      \* source.start calls in order: chunk, start time, duration
    frames,         \* the audio frames received, in order: decoded duration, 0 if malformed
    \* ---- LiveAssistant component: session lifecycle ----
    variant,        \* which LiveAssistant is mounted: "sdk" or "ws"
    mounted,        \* the component is mounted (its button can be pressed)
    isConnected,    \* useState isConnected
    interactionState, \* useState interactionState
    starts,         \* startSession invocations: position and local variables
    streams,        \* microphone streams created by getUserMedia: "live" | "stopped"
    streamRef,      \* streamRef.current (index in streams, NoRef for null)
    contexts,       \* AudioContexts created: state and whether a processor is attached
    audioContextRef,   \* audioContextRef.current
    inputContextRef,   \* inputContextRef.current
    conns,          \* transports created: "connecting" | "open" | "closed" | "errored"
    sessionRef,     \* sessionRef.current
    animating,      \* a requestAnimationFrame callback of the visualizer is pending
    inputAnalyserRef,  \* inputAnalyserRef.current is set
    outputAnalyserRef, \* outputAnalyserRef.current is set
    \* ---- LiveAssistant component: voice activity ----
    lastVoiceTime,  \* lastVoiceTimeRef.current: 0, or 1 for a Date.now() value
    silenceTimeoutRef, \* silenceTimeoutRef.current: NoTimer, or ms until the timer fires
    sinceVoice,     \* ms of input below threshold since the session's last loud window
    lastHint,       \* sinceVoice when the latest end-of-turn hint was emitted
    hints,          \* end-of-turn hints emitted since the session's last loud window
    lastSend,       \* readyState of the transport at the latest audio frame sent
    lastMeasure,    \* the session's latest loudness measurement <<inVol, outVol>>
    sources,        \* buffer sources started by onAudioData: state and context
    sourcesRef,     \* sourcesRef.current: the sources in the in-flight set
    \* ---- audio codec ----
    sample,         \* the input sample, in units of 1/Resolution
    encoder,        \* the conversion applied: "createBlob" or "pcm16" ("none" at first)
    pcm,            \* the bytes of the encoded sample, <<>> before encoding
    decoded,        \* <<the decoded sample>>, in units of 1/Resolution, <<>> before
    \* ---- App: cloud sync engine ----
    cloud,          \* the blob of the storage service: data and updatedAt
    local,          \* per device: the local data (inventory, shopping list, ...)
    lastSyncTime,   \* per device: useStickyState lastSyncTime
    pushTimer,      \* per device: the 2 s timeout of the push effect is armed
    puts,           \* per device: the updateFamilyData call in flight
    polls,          \* per device: the poll() call in flight
    backup,         \* per device: localStorage 'fridge-cloud-backup'
    made,           \* the user's edits: <<edit, device>>
    syncStep,       \* direction of the latest change of a device's lastSyncTime
    \* ---- App: inventory tool ----
    inventory,      \* useStickyState inventory: items with name and quantity
    lastCall        \* the latest updateInventory call and the inventory before it

relayVars == <<conversation, spokenBuffer, streamState, tts, out>>

toolVars == <<calls, completed, transcripts, sent, stoppedAt>>

playVars == <<clock, nextStartTime, decoding, arrived, scheduled, frames>>

lifeVars == <<variant, mounted, isConnected, interactionState, starts, streams,
              streamRef, contexts, audioContextRef, inputContextRef, conns,
              sessionRef, animating, inputAnalyserRef, outputAnalyserRef>>

voiceVars == <<lastVoiceTime, silenceTimeoutRef, sinceVoice, lastHint, hints,
               lastSend>>

srcVars == <<sources, sourcesRef>>

sessionVars == <<lifeVars, voiceVars, lastMeasure, srcVars>>

codecVars == <<sample, encoder, pcm, decoded>>

syncVars == <<cloud, local, lastSyncTime, pushTimer, puts, polls, backup, made,
              syncStep>>

invVars == <<inventory, lastCall>>

appVars == <<syncVars, invVars>>

vars == <<conversation, spokenBuffer, streamState, tts, out,
          calls, completed, transcripts, sent, stoppedAt,
          clock, nextStartTime, decoding, arrived, scheduled, frames,
          sessionVars, codecVars, appVars>>

(***************************************************************************)
(* Bounds of the model.                                                    *)
(***************************************************************************)
MaxDeltas == 3       \* deltas the model stream delivers in the turn
MaxCalls == 3        \* tool calls received in a behaviour
MaxAudio == 3        \* audio chunks received in a behaviour
MaxClock == 4        \* playback clock values, in units of one chunk duration
MaxDuration == 2     \* longest decoded chunk, in the same units
MaxTurns == 2        \* user messages in SpecRelayTurns
MaxTurnsDeltas == 2  \* deltas delivered in SpecRelayTurns, all turns together

(***************************************************************************)
(* Text.  A string is the sequence of its characters.                      *)
(***************************************************************************)
Whitespace == {" "}
SentenceTerminal == {".", "!", "?"}

\* The chunks the model stream can deliver (decoder.decode(value)).
ChunkTexts ==
    { <<"A">>, <<" ", "c", "?">>, <<".", " ">>, <<" ">> }

RECURSIVE Concat(_)
Concat(ss) == IF ss = <<>> THEN <<>> ELSE Head(ss) \o Concat(Tail(ss))

\* The string held by a buffer made of deltas.
BufText(buf) == Concat([i \in 1..Len(buf) |-> buf[i].text])

\* /[.!?]\s*$/.test(s)
SentenceEnd(s) ==
    \E i \in 1..Len(s) :
        /\ s[i] \in SentenceTerminal
        /\ \A j \in (i+1)..Len(s) : s[j] \in Whitespace

RECURSIVE TrimStart(_)
TrimStart(s) ==
    IF s # <<>> /\ Head(s) \in Whitespace THEN TrimStart(Tail(s)) ELSE s

RECURSIVE TrimEnd(_)
TrimEnd(s) ==
    IF s # <<>> /\ s[Len(s)] \in Whitespace
    THEN TrimEnd(SubSeq(s, 1, Len(s) - 1))
    ELSE s

\* String.prototype.trim
Trim(s) == TrimEnd(TrimStart(s))

(***************************************************************************)
(* Messages sent by the relay.  `n` is the delta number of a delta, the    *)
(* index in tts of the call whose audio an audio message carries, and 0    *)
(* otherwise; `payload` is the text of a delta or the words of an error.   *)
(***************************************************************************)
Msg(type, turn, n, payload) ==
    [type |-> type, turn |-> turn, n |-> n, payload |-> payload]

NumDeltas == Cardinality({i \in 1..Len(out) : out[i].type = "delta"})

Pending(k) == tts[k].status = "pending"

(***************************************************************************)
(* tools.js handleToolCall: the payload sent for a tool message.           *)
(***************************************************************************)
HandleToolCall(tool) ==
    CASE tool = "updateInventory" ->
            Msg("tool", 0, 0, <<tool, "Inventory updated">>)
      [] tool = "addToShoppingList" ->
            Msg("tool", 0, 0, <<tool, "Item added to shopping list">>)
      [] OTHER ->
            Msg("unknown", 0, 0, <<"error", "Unknown tool">>)

(***************************************************************************)
(* Relay actions.                                                          *)
(***************************************************************************)
RelayInit ==
    /\ conversation = <<>>
    /\ spokenBuffer = <<>>
    /\ streamState = <<>>
    /\ tts = <<>>
    /\ out = <<>>

\* ws.on("message") with msg.type === "user": push the message and start
\* streamGemini; the handler stays suspended until the stream is over.
\* SpecRelay follows the session through the turn of one user message.
UserMessage ==
    /\ conversation = <<>>
    /\ conversation' = Append(conversation, "user")
    /\ streamState' = Append(streamState, "open")
    /\ UNCHANGED <<spokenBuffer, tts, out>>
    /\ UNCHANGED <<toolVars, playVars, sessionVars, codecVars, appVars>>

\* streamGemini catch -> onError: the fetch or a read failed.
OnError(t) ==
    /\ streamState[t] = "open"
    /\ streamState' = [streamState EXCEPT ![t] = "errored"]
    /\ out' = Append(out, Msg("error", t, 0, <<"stream error">>))
    /\ UNCHANGED <<conversation, spokenBuffer, tts>>
    /\ UNCHANGED <<toolVars, playVars, sessionVars, codecVars, appVars>>

\* onChunk up to its await: forward the delta, append it to the buffer and,
\* on a sentence boundary, call synthesizeSpeech with the buffer's text.
\* streamGemini does not await onChunk, so the read loop goes on.
OnChunk(t, text) ==
    /\ streamState[t] = "open"
    /\ NumDeltas < MaxDeltas
    /\ LET d == [n |-> NumDeltas + 1, turn |-> t, text |-> text]
           buf == Append(spokenBuffer, d)
       IN  /\ out' = Append(out, Msg("delta", t, d.n, text))
           /\ spokenBuffer' = buf
           /\ tts' = IF SentenceEnd(BufText(buf))
                     THEN Append(tts, [kind |-> "chunk", turn |-> t,
                                       text |-> buf, status |-> "pending"])
                     ELSE tts
    /\ UNCHANGED <<conversation, streamState>>
    /\ UNCHANGED <<toolVars, playVars, sessionVars, codecVars, appVars>>

\* onChunk after its await: the audio is sent and the buffer cleared, or
\* synthesizeSpeech threw and the error is reported.
OnChunkSynthesized(k, ok) ==
    /\ tts[k].kind = "chunk"
    /\ Pending(k)
    /\ IF ok
       THEN /\ tts' = [tts EXCEPT ![k].status = "ok"]
            /\ out' = Append(out, Msg("audio", tts[k].turn, k, <<>>))
            /\ spokenBuffer' = <<>>
       ELSE /\ tts' = [tts EXCEPT ![k].status = "failed"]
            /\ out' = Append(out, Msg("error", tts[k].turn, 0, <<"TTS failed">>))
            /\ UNCHANGED spokenBuffer
    /\ UNCHANGED <<conversation, streamState>>
    /\ UNCHANGED <<toolVars, playVars, sessionVars, codecVars, appVars>>

\* onEnd up to its await: reader.read() reported done.
OnEnd(t) ==
    /\ streamState[t] = "open"
    /\ streamState' = [streamState EXCEPT ![t] = "ended"]
    /\ IF Trim(BufText(spokenBuffer)) # <<>>
       THEN /\ tts' = Append(tts, [kind |-> "end", turn |-> t,
                                   text |-> spokenBuffer, status |-> "pending"])
            /\ UNCHANGED out
       ELSE /\ out' = Append(out, Msg("done", t, 0, <<>>))
            /\ UNCHANGED tts
    /\ UNCHANGED <<conversation, spokenBuffer>>
    /\ UNCHANGED <<toolVars, playVars, sessionVars, codecVars, appVars>>

\* OnEndSynthesized with the clearing of the buffer left to the success path,
\* as onChunk does.
OnEndSynthesized_ClearOnSuccess(k, ok) ==
    /\ tts[k].kind = "end"
    /\ Pending(k)
    /\ tts' = [tts EXCEPT ![k].status = IF ok THEN "ok" ELSE "failed"]
    /\ spokenBuffer' = IF ok THEN <<>> ELSE spokenBuffer
    /\ out' = (IF ok THEN Append(out, Msg("audio", tts[k].turn, k, <<>>)) ELSE out)
                \o << Msg("done", tts[k].turn, 0, <<>>) >>
    /\ UNCHANGED <<conversation, streamState>>
    /\ UNCHANGED <<toolVars, playVars, sessionVars, codecVars, appVars>>

\* onEnd after its await: audio if there is any, clear the buffer, "done".
OnEndSynthesized(k, ok) ==
    /\ tts[k].kind = "end"
    /\ Pending(k)
    /\ tts' = [tts EXCEPT ![k].status = IF ok THEN "ok" ELSE "failed"]
    /\ spokenBuffer' = <<>>
    /\ out' = (IF ok THEN Append(out, Msg("audio", tts[k].turn, k, <<>>)) ELSE out)
                \o << Msg("done", tts[k].turn, 0, <<>>) >>
    /\ UNCHANGED <<conversation, streamState>>
    /\ UNCHANGED <<toolVars, playVars, sessionVars, codecVars, appVars>>

\* ws.on("message") with a further "user" message.  The handler is async and
\* the socket does not wait for it: the message is handled as soon as it
\* arrives, whatever the state of the earlier turns.
NextUserMessage ==
    /\ conversation # <<>>
    /\ Len(conversation) < MaxTurns
    /\ conversation' = Append(conversation, "user")
    /\ streamState' = Append(streamState, "open")
    /\ UNCHANGED <<spokenBuffer, tts, out>>
    /\ UNCHANGED <<toolVars, playVars, sessionVars, codecVars, appVars>>

RelayNext ==
    \/ UserMessage
    \/ \E t \in 1..Len(streamState) : OnError(t)
    \/ \E t \in 1..Len(streamState), text \in ChunkTexts : OnChunk(t, text)
    \/ \E k \in 1..Len(tts), ok \in BOOLEAN : OnChunkSynthesized(k, ok)
    \/ \E t \in 1..Len(streamState) : OnEnd(t)
    \/ \E k \in 1..Len(tts), ok \in BOOLEAN : OnEndSynthesized(k, ok)

\* The relay session through several user messages, with fewer deltas.
RelayTurnsNext ==
    \/ UserMessage
    \/ NextUserMessage
    \/ \E t \in 1..Len(streamState) : OnError(t)
    \/ \E t \in 1..Len(streamState), text \in ChunkTexts :
           NumDeltas < MaxTurnsDeltas /\ OnChunk(t, text)
    \/ \E k \in 1..Len(tts), ok \in BOOLEAN : OnChunkSynthesized(k, ok)
    \/ \E t \in 1..Len(streamState) : OnEnd(t)
    \/ \E k \in 1..Len(tts), ok \in BOOLEAN : OnEndSynthesized(k, ok)

(***************************************************************************)
(* The ws client's transcript.  The socket delivers the relay's messages   *)
(* in the order they were sent; the transcript is what the client's        *)
(* ws.onmessage has made of them.                                          *)
(***************************************************************************)
\* OnMessage with the text of a delta put in place of the entry's text.
OnMessage_Replace(prev, msg) ==
    IF msg.type = "delta"
    THEN IF prev # <<>> /\ ~prev[Len(prev)].user
         THEN [prev EXCEPT ![Len(prev)].text = msg.payload]
         ELSE Append(prev, [user |-> FALSE, text |-> msg.payload])
    ELSE prev

\* ws.onmessage, setTranscripts: a delta is appended to the last entry when
\* that entry is not the user's, and starts a new entry otherwise.
OnMessage(prev, msg) ==
    IF msg.type = "delta"
    THEN IF prev # <<>> /\ ~prev[Len(prev)].user
         THEN [prev EXCEPT ![Len(prev)].text = @ \o msg.payload]
         ELSE Append(prev, [user |-> FALSE, text |-> msg.payload])
    ELSE prev

RECURSIVE WsTranscripts(_)
WsTranscripts(msgs) ==
    IF msgs = <<>> THEN <<>>
    ELSE OnMessage(WsTranscripts(SubSeq(msgs, 1, Len(msgs) - 1)), msgs[Len(msgs)])

(***************************************************************************)
(* Tool dispatch on the client.                                            *)
(*                                                                         *)
(* A tool call carries an id, a name and arguments; `args` is "none" when  *)
(* the call carries no argument object.  Values passed around as tool      *)
(* results are records [kind, value]: a string, { ok: ... } or             *)
(* { error: message }.                                                     *)
(***************************************************************************)
KnownTools == {"updateInventory", "addToShoppingList", "saveRecipe"}

\* The tool calls the remote model makes in the model.
ToolInputs ==
    { <<"updateInventory", "args">>, <<"updateInventory", "none">>,
      <<"deleteEverything", "args">> }

Str(v) == [kind |-> "string", value |-> v]
Ok(b) == [kind |-> "ok", value |-> b]
ErrorPayload(message) == [kind |-> "error", value |-> message]

Returned(v) == [threw |-> FALSE, value |-> v]
Threw(message) == [threw |-> TRUE, value |-> message]

\* App.handleVoiceToolUse: what the promise it returns settles to.  The three
\* known tools destructure args first, which throws when there are none.
HandleVoiceToolUse(tool, args) ==
    IF tool \in KnownTools
    THEN IF args = "none"
         THEN Threw("TypeError")
         ELSE CASE tool = "updateInventory" -> Returned(Str("inventory message"))
                [] tool = "addToShoppingList" -> Returned(Str("Added to shopping list."))
                [] tool = "saveRecipe" -> Returned(Str("Saved recipe."))
    ELSE Returned(Str("Function executed."))

\* LiveAssistant's onToolCall wrapper (SDK variant): the transcript entry it
\* adds and the value it returns for a settled callback.
WrapperTranscript(name, outcome) ==
    [kind |-> IF outcome.threw THEN "failed" ELSE "done", name |-> name]

WrapperResult(outcome) ==
    IF outcome.threw THEN Returned(Ok("false")) ELSE Returned(outcome.value)

\* connectToLiveChef's mapper: result = await onToolCall(...), or
\* { error: message } when that throws.
MapperResult(wrapped) ==
    IF wrapped.threw THEN ErrorPayload(wrapped.value) ELSE wrapped.value

\* The indices of the calls that arrived in message m, in order.
RECURSIVE CallsOf(_, _)
CallsOf(m, i) ==
    IF i > Len(calls) THEN <<>>
    ELSE (IF calls[i].msg = m THEN <<i>> ELSE <<>>) \o CallsOf(m, i + 1)

NumMsgs == IF calls = <<>> THEN 0 ELSE calls[Len(calls)].msg

\* functionResponses with the results in the order the callbacks completed.
FunctionResponses_CompletionOrder(m) ==
    LET is == CallsOf(m, 1)
        done == SelectSeq(completed, LAMBDA c : calls[c].msg = m)
    IN  [j \in 1..Len(is) |->
            [id |-> calls[is[j]].id, name |-> calls[is[j]].name,
             response |-> [result |-> calls[done[j]].result]]]

\* The functionResponses array Promise.all resolves to for message m.
FunctionResponses(m) ==
    LET is == CallsOf(m, 1)
    IN  [j \in 1..Len(is) |->
            [id |-> calls[is[j]].id, name |-> calls[is[j]].name,
             response |-> [result |-> calls[is[j]].result]]]

NoResult == [kind |-> "none", value |-> "none"]

NewCall(i, m, via, input, status) ==
    [id |-> i, msg |-> m, via |-> via, name |-> input[1], args |-> input[2],
     outcome |-> HandleVoiceToolUse(input[1], input[2]),
     status |-> status, result |-> NoResult]

NoStop == -1

ToolInit ==
    /\ calls = <<>>
    /\ completed = <<>>
    /\ transcripts = <<>>
    /\ sent = <<>>
    /\ stoppedAt = NoStop

\* connectToLiveChef.onmessage with msg.toolCall: functionCalls.map starts
\* the mapper of every call, each of which runs to its await with the host
\* callback invoked.
ReceiveToolCalls(inputs) ==
    /\ Len(calls) + Len(inputs) <= MaxCalls
    /\ calls' = calls \o
           [j \in 1..Len(inputs) |->
               NewCall(Len(calls) + j, NumMsgs + 1, "sdk", inputs[j], "running")]
    /\ UNCHANGED <<completed, transcripts, sent>>
    /\ UNCHANGED <<stoppedAt, relayVars, playVars, sessionVars, codecVars, appVars>>

\* The host callback of call i is over: the wrapper adds its transcript
\* entry and returns, and the mapper takes the value as the call's result.
ToolSettled(i) ==
    /\ calls[i].via = "sdk"
    /\ calls[i].status = "running"
    /\ transcripts' = Append(transcripts, WrapperTranscript(calls[i].name, calls[i].outcome))
    /\ calls' = [calls EXCEPT ![i].status = "settled",
                              ![i].result = MapperResult(WrapperResult(calls[i].outcome))]
    /\ completed' = Append(completed, i)
    /\ UNCHANGED sent
    /\ UNCHANGED <<stoppedAt, relayVars, playVars, sessionVars, codecVars, appVars>>

\* Promise.all has resolved for message m: session.sendToolResponse.
SendToolResponse(m) ==
    /\ CallsOf(m, 1) # <<>>
    /\ \A i \in 1..Len(calls) : calls[i].msg = m =>
            calls[i].via = "sdk" /\ calls[i].status = "settled"
    /\ sent' = Append(sent, FunctionResponses(m))
    /\ calls' = [i \in 1..Len(calls) |->
                    IF calls[i].msg = m THEN [calls[i] EXCEPT !.status = "answered"]
                    ELSE calls[i]]
    /\ UNCHANGED <<completed, transcripts>>
    /\ UNCHANGED <<stoppedAt, relayVars, playVars, sessionVars, codecVars, appVars>>

\* LiveAssistant (WebSocket variant) ws.onmessage with msg.type === "tool":
\* the host callback is invoked and its promise dropped.
ReceiveToolWs(input) ==
    /\ Len(calls) < MaxCalls
    /\ calls' = Append(calls, NewCall(Len(calls) + 1, NumMsgs + 1, "ws", input, "dropped"))
    /\ completed' = Append(completed, Len(calls) + 1)
    /\ UNCHANGED <<transcripts, sent>>
    /\ UNCHANGED <<stoppedAt, relayVars, playVars, sessionVars, codecVars, appVars>>

\* Relay ws.on("message") with msg.type === "tool": handleToolCall replies.
RelayToolMessage(input) ==
    /\ Len(calls) < MaxCalls
    /\ calls' = Append(calls, NewCall(Len(calls) + 1, NumMsgs + 1, "relay", input, "replied"))
    /\ completed' = Append(completed, Len(calls) + 1)
    /\ out' = Append(out, HandleToolCall(input[1]))
    /\ UNCHANGED <<transcripts, sent>>
    /\ UNCHANGED <<stoppedAt, conversation, spokenBuffer, streamState, tts, playVars,
                   sessionVars, codecVars, appVars>>

\* disconnect() while the session is open: sessionRef.current.close().  The
\* mappers of the calls that are running are not told.
StopTools ==
    /\ stoppedAt = NoStop
    /\ stoppedAt' = Len(sent)
    /\ UNCHANGED <<calls, completed, transcripts, sent>>
    /\ UNCHANGED <<relayVars, playVars, sessionVars, codecVars, appVars>>

\* The tool call batches a message can carry.
ToolBatches ==
    {<<a>> : a \in ToolInputs} \cup {<<a, b>> : a \in ToolInputs, b \in ToolInputs}

ToolNext ==
    \/ \E inputs \in ToolBatches : ReceiveToolCalls(inputs)
    \/ \E i \in 1..Len(calls) : ToolSettled(i)
    \/ \E m \in 1..NumMsgs : SendToolResponse(m)
    \/ \E input \in ToolInputs : ReceiveToolWs(input)
    \/ \E input \in ToolInputs : RelayToolMessage(input)

\* The tool calls of an SDK session and the stop of that session: the closed
\* transport delivers no further message.
ToolStopNext ==
    \/ \E inputs \in ToolBatches : stoppedAt = NoStop /\ ReceiveToolCalls(inputs)
    \/ \E i \in 1..Len(calls) : ToolSettled(i)
    \/ \E m \in 1..NumMsgs : SendToolResponse(m)
    \/ StopTools

(***************************************************************************)
(* Playback scheduling on the client (SDK variant), within one connected   *)
(* session.  Times are whole multiples of a unit.  decodeAudioData has no   *)
(* await of its own, so the continuation of onAudioData runs as a          *)
(* microtask, before the task that delivers the next message; the clock    *)
(* belongs to the audio thread and may advance in between.                 *)
(***************************************************************************)
NoChunk == [chunk |-> 0, at |-> 0, duration |-> 0]

Max(a, b) == IF a >= b THEN a ELSE b

PlayInit ==
    /\ clock = 0
    /\ nextStartTime = 0
    /\ decoding = NoChunk
    /\ arrived = 0
    /\ scheduled = <<>>
    /\ frames = <<>>

\* The audio thread advances currentTime.
ClockTick ==
    /\ clock < MaxClock
    /\ clock' = clock + 1
    /\ UNCHANGED <<nextStartTime, decoding, arrived, scheduled, frames>>
    /\ UNCHANGED <<relayVars, toolVars, sessionVars, codecVars, appVars>>

\* onAudioData up to its await.  duration = 0 stands for a frame that fails
\* to decode (atob, the Int16Array view or createBuffer throws).
AudioArrives(duration) ==
    /\ decoding = NoChunk
    /\ arrived < MaxAudio
    /\ arrived' = arrived + 1
    /\ nextStartTime' = Max(nextStartTime, clock)
    /\ decoding' = [chunk |-> arrived + 1, at |-> clock, duration |-> duration]
    /\ frames' = Append(frames, duration)
    /\ UNCHANGED <<clock, scheduled>>
    /\ UNCHANGED <<relayVars, toolVars, sessionVars, codecVars, appVars>>

\* AudioDecoded without nextStartTimeRef.current += audioBuffer.duration.
AudioDecoded_NoAdvance ==
    /\ decoding # NoChunk
    /\ decoding' = NoChunk
    /\ IF decoding.duration > 0
       THEN scheduled' = Append(scheduled, [chunk |-> decoding.chunk, at |-> decoding.at,
                                            start |-> nextStartTime,
                                            duration |-> decoding.duration])
       ELSE UNCHANGED scheduled
    /\ UNCHANGED <<clock, arrived, nextStartTime, frames>>
    /\ UNCHANGED <<relayVars, toolVars, sessionVars, codecVars, appVars>>

\* AudioDecoded without the catch block taking the malformed frame away: a
\* source is started for every frame.
AudioDecoded_NoCatch ==
    /\ decoding # NoChunk
    /\ decoding' = NoChunk
    /\ scheduled' = Append(scheduled, [chunk |-> decoding.chunk, at |-> decoding.at,
                                       start |-> nextStartTime,
                                       duration |-> decoding.duration])
    /\ nextStartTime' = nextStartTime + decoding.duration
    /\ UNCHANGED <<clock, arrived, frames>>
    /\ UNCHANGED <<relayVars, toolVars, sessionVars, codecVars, appVars>>

\* onAudioData after its await: source.start(nextStartTime) and the advance
\* of nextStartTime by the buffer's duration, or the catch block.
AudioDecoded ==
    /\ decoding # NoChunk
    /\ decoding' = NoChunk
    /\ IF decoding.duration > 0
       THEN /\ scheduled' = Append(scheduled, [chunk |-> decoding.chunk, at |-> decoding.at,
                                               start |-> nextStartTime,
                                               duration |-> decoding.duration])
            /\ nextStartTime' = nextStartTime + decoding.duration
       ELSE UNCHANGED <<scheduled, nextStartTime>>
    /\ UNCHANGED <<clock, arrived, frames>>
    /\ UNCHANGED <<relayVars, toolVars, sessionVars, codecVars, appVars>>

PlayNext ==
    \/ ClockTick
    \/ \E duration \in 0..MaxDuration : AudioArrives(duration)
    \/ AudioDecoded

(***************************************************************************)
(* The LiveAssistant component.                                            *)
(*                                                                         *)
(* Two versions of the component exist: "sdk" opens the session with       *)
(* connectToLiveChef, "ws" opens a WebSocket to the relay.  Microphone     *)
(* streams, audio contexts and transports are numbered in creation order;  *)
(* a ref holds such a number, or NoRef for null.  A startSession call is   *)
(* suspended at getUserMedia ("mic"), at AudioContext.resume ("resume") or  *)
(* at connectToLiveChef ("connect"), and is then "done" or "failed".       *)
(***************************************************************************)
Variants == {"sdk", "ws"}

otherVars == <<relayVars, toolVars, playVars, codecVars, appVars>>

NoRef == 0
NoTimer == 0
NoVoice == -1
NoHint == -2
NoMeasure == <<-1, -1>>

MaxStarts == 2       \* startSession calls in a behaviour
MaxHints == 2        \* end-of-turn hints counted in one silence
MaxSources == 2      \* audio chunks delivered to onAudioData in SpecStop

SilenceMs == 700             \* delay of the silence timer
BufferSize == 4096           \* samples per onaudioprocess window
InputSampleRate == 16000     \* sample rate of the input context
WindowMs == (BufferSize * 1000) \div InputSampleRate

OutputThreshold == 10        \* outVol > 10: speaking
InputThreshold == 15         \* inVol > 15: listening

\* The loudness values getVol returns in the model: at and above each
\* threshold.
InVolumes == {InputThreshold, InputThreshold + 1}
OutVolumes == {OutputThreshold, OutputThreshold + 1}

StopStream(strs, ref) ==
    IF ref = NoRef THEN strs ELSE [strs EXCEPT ![ref] = "stopped"]

CloseContext(ctxs, ref) ==
    IF ref = NoRef THEN ctxs ELSE [ctxs EXCEPT ![ref].state = "closed"]

CloseTransport(cs, ref) ==
    IF ref = NoRef THEN cs ELSE [cs EXCEPT ![ref] = "closed"]

NewContext(state) == [state |-> state, processor |-> FALSE]

ProcessorRunning(c) == contexts[c].processor /\ contexts[c].state = "running"

\* The startSession calls that are suspended at an await.
StartsInFlight == {s \in 1..Len(starts) : starts[s].pc \notin {"done", "failed"}}

\* The component is rendered only while the assistant is open: at first it
\* is not mounted.
SessionInit ==
    /\ variant = "none"
    /\ mounted = FALSE
    /\ isConnected = FALSE
    /\ interactionState = "idle"
    /\ starts = <<>>
    /\ streams = <<>>
    /\ streamRef = NoRef
    /\ contexts = <<>>
    /\ audioContextRef = NoRef
    /\ inputContextRef = NoRef
    /\ conns = <<>>
    /\ sessionRef = NoRef
    /\ animating = FALSE
    /\ inputAnalyserRef = FALSE
    /\ outputAnalyserRef = FALSE
    /\ lastVoiceTime = 0
    /\ silenceTimeoutRef = NoTimer
    /\ sinceVoice = NoVoice
    /\ lastHint = NoHint
    /\ hints = 0
    /\ lastSend = "none"
    /\ lastMeasure = NoMeasure
    /\ sources = <<>>
    /\ sourcesRef = {}

\* sourcesRef.current.forEach(s => s.stop()).
StopSources ==
    [i \in 1..Len(sources) |->
        IF i \in sourcesRef THEN [sources[i] EXCEPT !.state = "stopped"] ELSE sources[i]]

\* disconnect(), run on the streams, contexts and transports that exist when
\* it is called.
\* The context refs are left set; the silence timer is left alone.
Disconnect(strs, sref, ctxs, cs) ==
    /\ conns' = CloseTransport(cs, sessionRef)
    /\ sessionRef' = NoRef
    /\ streams' = StopStream(strs, sref)
    /\ streamRef' = NoRef
    /\ contexts' = CloseContext(CloseContext(ctxs, audioContextRef), inputContextRef)
    /\ animating' = FALSE
    /\ isConnected' = FALSE
    /\ interactionState' = "idle"
    /\ sinceVoice' = NoVoice
    /\ hints' = 0
    /\ lastMeasure' = NoMeasure
    /\ sources' = StopSources
    /\ sourcesRef' = {}
    /\ UNCHANGED <<audioContextRef, inputContextRef>>

NewStart == [pc |-> "mic", stream |-> NoRef, outCtx |-> NoRef, inCtx |-> NoRef]

\* The component of variant v is mounted with isActive true and its
\* activation effect calls startSession, which runs up to its first await.
Mount(v) ==
    /\ variant = "none"
    /\ variant' = v
    /\ mounted' = TRUE
    /\ starts' = Append(starts, NewStart)
    /\ UNCHANGED <<isConnected, interactionState, streams,
                   streamRef, contexts, audioContextRef, inputContextRef, conns,
                   sessionRef, animating, inputAnalyserRef, outputAnalyserRef>>
    /\ UNCHANGED <<voiceVars, lastMeasure, srcVars>>
    /\ UNCHANGED otherVars

\* startSession up to its first await, called by the button while
\* isConnected is false.
StartSession ==
    /\ mounted
    /\ Len(starts) < MaxStarts
    /\ ~isConnected
    /\ starts' = Append(starts, NewStart)
    /\ UNCHANGED <<variant, mounted, isConnected, interactionState, streams,
                   streamRef, contexts, audioContextRef, inputContextRef, conns,
                   sessionRef, animating, inputAnalyserRef, outputAnalyserRef>>
    /\ UNCHANGED <<voiceVars, lastMeasure, srcVars>>
    /\ UNCHANGED otherVars

\* The catch block of startSession.
StartFailed(s, strs, sref, ctxs, st) ==
    /\ starts' = [starts EXCEPT ![s] = [st EXCEPT !.pc = "failed"]]
    /\ Disconnect(strs, sref, ctxs, conns)
    /\ UNCHANGED <<variant, mounted, inputAnalyserRef, outputAnalyserRef>>
    /\ UNCHANGED <<lastVoiceTime, silenceTimeoutRef, lastHint, lastSend>>

\* startSession from the assignment of the context refs to its next await
\* (sdk: connectToLiveChef) or to its end (ws).
ContextsReady(s, strs, sref, ctxs, st) ==
    IF variant = "sdk"
    THEN /\ starts' = [starts EXCEPT ![s] = [st EXCEPT !.pc = "connect"]]
         /\ audioContextRef' = st.outCtx
         /\ inputContextRef' = st.inCtx
         /\ outputAnalyserRef' = TRUE
         /\ streams' = strs
         /\ streamRef' = sref
         /\ contexts' = ctxs
         /\ UNCHANGED <<variant, mounted, isConnected, interactionState, conns,
                        sessionRef, animating, inputAnalyserRef>>
         /\ UNCHANGED <<voiceVars, lastMeasure, srcVars>>
    ELSE /\ starts' = [starts EXCEPT ![s] = [st EXCEPT !.pc = "done"]]
         /\ inputContextRef' = st.inCtx
         /\ conns' = Append(conns, "connecting")
         /\ sessionRef' = Len(conns) + 1
         /\ streams' = strs
         /\ streamRef' = sref
         /\ contexts' = [ctxs EXCEPT ![st.inCtx].processor = TRUE]
         /\ animating' = mounted
         /\ UNCHANGED <<variant, mounted, isConnected, interactionState,
                        audioContextRef, inputAnalyserRef, outputAnalyserRef>>
         /\ UNCHANGED <<voiceVars, lastMeasure, srcVars>>

\* startSession after getUserMedia.  outcome: "denied" (getUserMedia
\* rejects), "throws1" (the first AudioContext constructor throws),
\* "throws2" (sdk: the second one throws), "suspended" (the contexts are
\* created suspended and resume() is awaited), "running".
MicOutcomes == {"denied", "throws1", "throws2", "suspended", "running"}

MicResolved(s, outcome) ==
    /\ starts[s].pc = "mic"
    /\ outcome = "throws2" => variant = "sdk"
    /\ UNCHANGED otherVars
    /\ LET strs == Append(streams, "live")
           sref == Len(streams) + 1
           n == Len(contexts)
           state == IF outcome = "suspended" THEN "suspended" ELSE "running"
           two == Append(Append(contexts, NewContext(state)), NewContext(state))
           one == Append(contexts, NewContext(state))
           st == IF variant = "sdk"
                 THEN [starts[s] EXCEPT !.stream = sref, !.outCtx = n + 1, !.inCtx = n + 2]
                 ELSE [starts[s] EXCEPT !.stream = sref, !.inCtx = n + 1]
           ctxs == IF variant = "sdk" THEN two ELSE one
       IN  CASE outcome = "denied" ->
                    StartFailed(s, streams, streamRef, contexts, starts[s])
             [] outcome = "throws1" ->
                    StartFailed(s, strs, sref, contexts,
                                [starts[s] EXCEPT !.stream = sref])
             [] outcome = "throws2" ->
                    StartFailed(s, strs, sref, one,
                                [starts[s] EXCEPT !.stream = sref, !.outCtx = n + 1])
             [] outcome = "suspended" ->
                    /\ starts' = [starts EXCEPT ![s] = [st EXCEPT !.pc = "resume"]]
                    /\ streams' = strs
                    /\ streamRef' = sref
                    /\ contexts' = ctxs
                    /\ UNCHANGED <<variant, mounted, isConnected, interactionState,
                                   audioContextRef, inputContextRef, conns, sessionRef,
                                   animating, inputAnalyserRef, outputAnalyserRef>>
                    /\ UNCHANGED <<voiceVars, lastMeasure, srcVars>>
             [] outcome = "running" ->
                    ContextsReady(s, strs, sref, ctxs, st)

\* startSession after await resume(): the contexts run, or resume() rejected.
\* A context closed in the meantime stays closed.
Resume(ctxs, c) ==
    IF c # NoRef /\ ctxs[c].state = "suspended"
    THEN [ctxs EXCEPT ![c].state = "running"]
    ELSE ctxs

Resumed(s, ok) ==
    /\ starts[s].pc = "resume"
    /\ UNCHANGED otherVars
    /\ IF ok
       THEN ContextsReady(s, streams, streamRef,
                          Resume(Resume(contexts, starts[s].outCtx), starts[s].inCtx),
                          starts[s])
       ELSE StartFailed(s, streams, streamRef, contexts, starts[s])

\* sdk: startSession after await connectToLiveChef: the session is stored,
\* isConnected set, the processor attached and the visualizer started; or
\* the connection failed.
Connected(s, ok) ==
    /\ starts[s].pc = "connect"
    /\ UNCHANGED otherVars
    /\ IF ok
       THEN /\ starts' = [starts EXCEPT ![s].pc = "done"]
            /\ conns' = Append(conns, "open")
            /\ sessionRef' = Len(conns) + 1
            /\ isConnected' = TRUE
            /\ inputAnalyserRef' = TRUE
            /\ contexts' = [contexts EXCEPT ![starts[s].inCtx].processor = TRUE]
            /\ animating' = mounted
            /\ UNCHANGED <<variant, mounted, interactionState, streams, streamRef,
                           audioContextRef, inputContextRef, outputAnalyserRef>>
            /\ UNCHANGED <<voiceVars, lastMeasure, srcVars>>
       ELSE StartFailed(s, streams, streamRef, contexts, starts[s])

\* ws.onopen of transport c.
WsOpen(c) ==
    /\ variant = "ws"
    /\ conns[c] = "connecting"
    /\ conns' = [conns EXCEPT ![c] = "open"]
    /\ isConnected' = TRUE
    /\ UNCHANGED <<variant, mounted, interactionState, starts, streams, streamRef,
                   contexts, audioContextRef, inputContextRef, sessionRef, animating,
                   inputAnalyserRef, outputAnalyserRef>>
    /\ UNCHANGED <<voiceVars, lastMeasure, srcVars>>
    /\ UNCHANGED otherVars

\* A transport error on c.  ws: ws.onerror calls disconnect().  sdk: the
\* onerror callback of connectToLiveChef only logs.
TransportError(c) ==
    /\ conns[c] \in {"connecting", "open"}
    /\ IF variant = "ws"
       THEN /\ Disconnect(streams, streamRef, contexts, [conns EXCEPT ![c] = "closed"])
            /\ UNCHANGED <<variant, mounted, starts, inputAnalyserRef, outputAnalyserRef>>
            /\ UNCHANGED <<lastVoiceTime, silenceTimeoutRef, lastHint, lastSend>>
       ELSE /\ conns' = [conns EXCEPT ![c] = "errored"]
            /\ UNCHANGED <<variant, mounted, isConnected, interactionState, starts,
                           streams, streamRef, contexts, audioContextRef,
                           inputContextRef, sessionRef, animating, inputAnalyserRef,
                           outputAnalyserRef>>
            /\ UNCHANGED <<voiceVars, lastMeasure, srcVars>>
    /\ UNCHANGED otherVars

\* The remote end closes transport c.  sdk: the onClose callback sets
\* isConnected to false.  ws: the socket has no onclose handler.
RemoteClose(c) ==
    /\ conns[c] \in {"open", "errored"}
    /\ conns' = [conns EXCEPT ![c] = "closed"]
    /\ isConnected' = IF variant = "sdk" THEN FALSE ELSE isConnected
    /\ UNCHANGED <<variant, mounted, interactionState, starts, streams, streamRef,
                   contexts, audioContextRef, inputContextRef, sessionRef, animating,
                   inputAnalyserRef, outputAnalyserRef>>
    /\ UNCHANGED <<voiceVars, lastMeasure, srcVars>>
    /\ UNCHANGED otherVars

\* disconnect() called by the button while isConnected, or by the cleanup of
\* the activation effect when the component is unmounted.
Stop(by) ==
    /\ mounted
    /\ by = "button" => isConnected
    /\ mounted' = (by = "button")
    /\ Disconnect(streams, streamRef, contexts, conns)
    /\ UNCHANGED <<variant, starts, inputAnalyserRef, outputAnalyserRef>>
    /\ UNCHANGED <<lastVoiceTime, silenceTimeoutRef, lastHint, lastSend>>
    /\ UNCHANGED otherVars

\* Time between two onaudioprocess windows passes for a pending timer.
Elapse(t) == IF t = NoTimer THEN NoTimer ELSE t - WindowMs

Quiet(since) ==
    IF since = NoVoice \/ since >= SilenceMs THEN since ELSE since + WindowMs

\* processor.onaudioprocess of the processor attached to context c, one
\* window after the previous one; loud: the window's rms is above 0.01.
AudioProcess(c, loud) ==
    /\ ProcessorRunning(c)
    /\ silenceTimeoutRef # NoTimer => silenceTimeoutRef > WindowMs
    /\ sinceVoice' = IF loud THEN 0 ELSE Quiet(sinceVoice)
    /\ hints' = IF loud THEN 0 ELSE hints
    /\ IF variant = "sdk"
       THEN IF sessionRef = NoRef
            THEN /\ silenceTimeoutRef' = Elapse(silenceTimeoutRef)
                 /\ UNCHANGED <<lastVoiceTime, lastSend>>
            ELSE /\ lastVoiceTime' = IF loud THEN 1 ELSE lastVoiceTime
                 /\ silenceTimeoutRef' =
                        IF loud THEN NoTimer
                        ELSE IF silenceTimeoutRef = NoTimer /\ lastVoiceTime # 0
                             THEN SilenceMs
                             ELSE Elapse(silenceTimeoutRef)
                 /\ lastSend' = conns[sessionRef]
       ELSE /\ lastSend' = IF sessionRef # NoRef /\ conns[sessionRef] = "open"
                           THEN "open" ELSE lastSend
            /\ UNCHANGED <<lastVoiceTime, silenceTimeoutRef>>
    /\ UNCHANGED <<lifeVars, lastHint, lastMeasure, srcVars>>
    /\ UNCHANGED otherVars

\* The callback of the silence timer: the end-of-turn hint, if there is a
\* session to send it to.
SilenceTimerFires ==
    /\ silenceTimeoutRef # NoTimer
    /\ \/ silenceTimeoutRef <= WindowMs
       \/ ~ \E c \in 1..Len(contexts) : ProcessorRunning(c)
    /\ silenceTimeoutRef' = NoTimer
    /\ lastHint' = IF sessionRef # NoRef THEN sinceVoice ELSE lastHint
    /\ hints' = IF sessionRef # NoRef /\ hints < MaxHints THEN hints + 1 ELSE hints
    /\ UNCHANGED <<lifeVars, lastVoiceTime, sinceVoice, lastSend, lastMeasure, srcVars>>
    /\ UNCHANGED otherVars

\* Classify with the input level looked at first.
Classify_InputFirst(inVol, outVol) ==
    IF inVol > InputThreshold THEN "listening"
    ELSE IF outVol > OutputThreshold THEN "speaking"
    ELSE "idle"

\* The interaction state for a pair of loudness values.
Classify(inVol, outVol) ==
    IF outVol > OutputThreshold THEN "speaking"
    ELSE IF inVol > InputThreshold THEN "listening"
    ELSE "idle"

\* One tick of the 200 ms interval that exists while isConnected.
Poll(inVol, outVol) ==
    /\ isConnected
    /\ inputAnalyserRef /\ outputAnalyserRef
    /\ interactionState' = Classify(inVol, outVol)
    /\ lastMeasure' = <<inVol, outVol>>
    /\ UNCHANGED <<variant, mounted, isConnected, starts, streams, streamRef,
                   contexts, audioContextRef, inputContextRef, conns, sessionRef,
                   animating, inputAnalyserRef, outputAnalyserRef>>
    /\ UNCHANGED <<voiceVars, srcVars>>
    /\ UNCHANGED otherVars

\* ws.onmessage of transport c with a "done" message.
WsDone(c) ==
    /\ variant = "ws"
    /\ conns[c] = "open"
    /\ interactionState' = "idle"
    /\ UNCHANGED <<variant, mounted, isConnected, starts, streams, streamRef,
                   contexts, audioContextRef, inputContextRef, conns, sessionRef,
                   animating, inputAnalyserRef, outputAnalyserRef>>
    /\ UNCHANGED <<voiceVars, lastMeasure, srcVars>>
    /\ UNCHANGED otherVars

\* onAudioData of the session on transport c, with its await: the chunk is
\* dropped if there is no output context or it is closed; ok: the chunk
\* decodes, its source is started on the output context and added to the
\* in-flight set.  The transport delivers messages only while it is open.
OnAudioData(c, ok) ==
    /\ variant = "sdk"
    /\ conns[c] = "open"
    /\ Len(sources) < MaxSources
    /\ IF audioContextRef # NoRef /\ contexts[audioContextRef].state # "closed" /\ ok
       THEN /\ sources' = Append(sources, [state |-> "scheduled", ctx |-> audioContextRef])
            /\ sourcesRef' = sourcesRef \cup {Len(sources) + 1}
       ELSE UNCHANGED srcVars
    /\ UNCHANGED <<lifeVars, voiceVars, lastMeasure>>
    /\ UNCHANGED otherVars

\* The "ended" event of source i, which has played to its end on a context
\* that is not closed.
SourceEnded(i) ==
    /\ sources[i].state = "scheduled"
    /\ contexts[sources[i].ctx].state = "running"
    /\ sources' = [sources EXCEPT ![i].state = "ended"]
    /\ sourcesRef' = sourcesRef \ {i}
    /\ UNCHANGED <<lifeVars, voiceVars, lastMeasure>>
    /\ UNCHANGED otherVars

\* The lifecycle of the component: starts with every outcome, transport
\* events and stops.
SessionNext ==
    \/ \E v \in Variants : Mount(v)
    \/ StartSession
    \/ \E s \in 1..Len(starts), outcome \in MicOutcomes : MicResolved(s, outcome)
    \/ \E s \in 1..Len(starts), ok \in BOOLEAN : Resumed(s, ok)
    \/ \E s \in 1..Len(starts), ok \in BOOLEAN : Connected(s, ok)
    \/ \E c \in 1..Len(conns) : WsOpen(c)
    \/ \E c \in 1..Len(conns) : TransportError(c)
    \/ \E c \in 1..Len(conns) : RemoteClose(c)
    \/ \E by \in {"button", "unmount"} : Stop(by)

\* The microphone windows and the silence timer, over the sessions of a
\* mounted component whose user presses the button only when no start is
\* under way.
VoiceNext ==
    \/ \E v \in Variants : Mount(v)
    \/ StartsInFlight = {} /\ StartSession
    \/ \E s \in 1..Len(starts), outcome \in MicOutcomes : MicResolved(s, outcome)
    \/ \E s \in 1..Len(starts), ok \in BOOLEAN : Resumed(s, ok)
    \/ \E s \in 1..Len(starts), ok \in BOOLEAN : Connected(s, ok)
    \/ \E c \in 1..Len(conns) : WsOpen(c)
    \/ \E c \in 1..Len(conns) : TransportError(c)
    \/ \E c \in 1..Len(conns) : RemoteClose(c)
    \/ Stop("button")
    \/ \E c \in 1..Len(contexts), loud \in BOOLEAN : AudioProcess(c, loud)
    \/ SilenceTimerFires

\* The lifecycle together with the audio chunks the session delivers.
StopNext ==
    \/ SessionNext
    \/ \E c \in 1..Len(conns), ok \in BOOLEAN : OnAudioData(c, ok)
    \/ \E i \in 1..Len(sources) : SourceEnded(i)

\* The lifecycle together with the interaction-state interval and the
\* relay's "done" message.
MonitorNext ==
    \/ SessionNext
    \/ \E inVol \in InVolumes, outVol \in OutVolumes : Poll(inVol, outVol)
    \/ \E c \in 1..Len(conns) : WsDone(c)

(***************************************************************************)
(* Audio codec.                                                            *)
(*                                                                         *)
(* Samples are fixed-point numbers: the integer n stands for the sample    *)
(* n / Resolution, so One stands for the sample 1.0 and SubSteps for       *)
(* 1/32768.  The encoded form is the pair of bytes of the Int16Array       *)
(* element, low byte first, as the Uint8Array view of its buffer gives     *)
(* them to btoa.                                                           *)
(***************************************************************************)
FullScale == 32768       \* createBlob: data[i] * 32768; decodeAudioData: / 32768.0
Pcm16Scale == 32767      \* ws onaudioprocess: clamped sample * 32767

SubSteps == 2            \* sample values per step of 1/32768
EdgeSamples == 8         \* samples taken next to 0, to -1.0 and to 1.0
OverRange == 4           \* samples taken beyond -1.0 and 1.0

Resolution == FullScale * SubSteps
One == Resolution

Abs(a) == IF a >= 0 THEN a ELSE -a

Min(a, b) == IF a <= b THEN a ELSE b

\* The samples of the model: around 0 and around both ends of the range.
Samples ==
    {n \in -(One + OverRange)..(One + OverRange) :
        Abs(n) <= EdgeSamples \/ Abs(n) >= One - EdgeSamples}

Encoders == {"createBlob", "pcm16"}

\* a / b with the fraction dropped (b > 0), as the conversion to an integer
\* element type does.
Trunc(a, b) == IF a >= 0 THEN a \div b ELSE -((-a) \div b)

\* Storing the integer v in an Int16Array element: modulo 2^16, as a signed
\* 16-bit value.
ToInt16(v) ==
    LET m == v % (2^16) IN IF m >= 2^15 THEN m - 2^16 ELSE m

\* new Uint8Array(int16.buffer): the two bytes of one element.
Bytes(v) == LET u == v % (2^16) IN <<u % 256, u \div 256>>

\* new Int16Array(data.buffer): one element from its two bytes.
FromBytes(b) == ToInt16(b[1] + 256 * b[2])

\* createBlob for one sample: int16[i] = data[i] * 32768.  The sample
\* n / Resolution times 32768 is n / SubSteps.
CreateBlob(n) == Bytes(ToInt16(Trunc(n, SubSteps)))

\* (c / Resolution) * 32767 for c >= 0, fraction dropped.  With
\* c = q * SubSteps + r the product is (q * 32767) / 32768 +
\* (r * 32767) / Resolution; it is computed in these two parts so that no
\* intermediate value needs more than 32 bits.
Scale32767(c) ==
    LET q == c \div SubSteps
        r == c % SubSteps
        whole == q * Pcm16Scale
    IN  (whole \div FullScale)
          + ((whole % FullScale) * SubSteps + r * Pcm16Scale) \div Resolution

\* ws onaudioprocess for one sample:
\* pcm16[i] = Math.max(-1, Math.min(1, input[i])) * 32767.
Pcm16(n) ==
    LET c == Max(-One, Min(One, n))
    IN  Bytes(ToInt16(IF c >= 0 THEN Scale32767(c) ELSE -Scale32767(-c)))

\* decodeAudioData for one sample: dataInt16[i] / 32768.0.
DecodeSample(b) == FromBytes(b) * SubSteps

CodecInit ==
    /\ sample = 0
    /\ encoder = "none"
    /\ pcm = <<>>
    /\ decoded = <<>>

\* The microphone delivers the sample n to the encoder e.
Capture(n, e) ==
    /\ encoder = "none" \/ decoded # <<>>
    /\ sample' = n
    /\ encoder' = e
    /\ pcm' = <<>>
    /\ decoded' = <<>>
    /\ UNCHANGED <<relayVars, toolVars, playVars, sessionVars, appVars>>

Encode ==
    /\ encoder # "none"
    /\ pcm = <<>>
    /\ pcm' = IF encoder = "createBlob" THEN CreateBlob(sample) ELSE Pcm16(sample)
    /\ UNCHANGED <<sample, encoder, decoded>>
    /\ UNCHANGED <<relayVars, toolVars, playVars, sessionVars, appVars>>

Decode ==
    /\ pcm # <<>>
    /\ decoded = <<>>
    /\ decoded' = <<DecodeSample(pcm)>>
    /\ UNCHANGED <<sample, encoder, pcm>>
    /\ UNCHANGED <<relayVars, toolVars, playVars, sessionVars, appVars>>

CodecNext ==
    \/ \E n \in Samples, e \in Encoders : Capture(n, e)
    \/ Encode
    \/ Decode

(***************************************************************************)
(* Cloud sync engine of App.                                               *)
(*                                                                         *)
(* Two devices run the application against one blob of the storage         *)
(* service.  The data of a device is the set of the user's edits it holds. *)
(* Date.now() values are used by the program only through comparisons, so  *)
(* they are kept up to their order: every step renumbers the time values   *)
(* of the state by rank, and a fresh reading is later than all of them.    *)
(***************************************************************************)
Devices == {1, 2}

MaxEdits == 1        \* user edits in a behaviour
MaxInFlight == 2     \* requests to the storage service in flight at a time
MaxBackups == 1      \* failed PUTs kept as a local backup in a behaviour

NoSnap == [data |-> {}, updatedAt |-> 0]
NoPut == [stage |-> "none", kind |-> "push", data |-> {}, updatedAt |-> 0]
NoPoll == [stage |-> "none", snap |-> NoSnap]
NoBackup == [exists |-> FALSE, data |-> {}, updatedAt |-> 0]

nonSyncVars == <<relayVars, toolVars, playVars, sessionVars, codecVars, invVars>>

\* The time values held in a state.
Times(c, ls, pu, po, bk) ==
    {c.updatedAt} \cup {ls[d] : d \in Devices}
    \cup {pu[d].updatedAt : d \in {e \in Devices : pu[e].stage # "none"}}
    \cup {po[d].snap.updatedAt : d \in {e \in Devices : po[e].stage = "read"}}
    \cup {bk[d].updatedAt : d \in {e \in Devices : bk[e].exists}}

\* The requests in flight.
InFlight ==
    Cardinality({d \in Devices : puts[d].stage # "none"})
    + Cardinality({d \in Devices : polls[d].stage # "none"})

\* Date.now(): later than every time value read before.
Now ==
    LET T == Times(cloud, lastSyncTime, puts, polls, backup)
    IN  1 + CHOOSE t \in T : \A u \in T : u <= t

Rank(T, t) == Cardinality({u \in T : u < t})

\* The next state, with its time values renumbered by rank.
Commit(c, l, ls, pt, pu, po, bk) ==
    LET T == Times(c, ls, pu, po, bk)
    IN  /\ cloud' = [c EXCEPT !.updatedAt = Rank(T, @)]
        /\ local' = l
        /\ lastSyncTime' = [d \in Devices |-> Rank(T, ls[d])]
        /\ pushTimer' = pt
        /\ puts' = [d \in Devices |->
                       IF pu[d].stage = "none" THEN NoPut
                       ELSE [pu[d] EXCEPT !.updatedAt = Rank(T, @)]]
        /\ polls' = [d \in Devices |->
                       IF po[d].stage = "none" THEN NoPoll
                       ELSE [po[d] EXCEPT !.snap.updatedAt = Rank(T, @)]]
        /\ backup' = [d \in Devices |->
                       IF bk[d].exists THEN [bk[d] EXCEPT !.updatedAt = Rank(T, @)]
                       ELSE NoBackup]

\* Both devices have mounted App: the push effect has armed its timer.
SyncInit ==
    /\ cloud = NoSnap
    /\ local = [d \in Devices |-> {}]
    /\ lastSyncTime = [d \in Devices |-> 0]
    /\ pushTimer = [d \in Devices |-> TRUE]
    /\ puts = [d \in Devices |-> NoPut]
    /\ polls = [d \in Devices |-> NoPoll]
    /\ backup = [d \in Devices |-> NoBackup]
    /\ made = {}
    /\ syncStep = "none"

\* The user of device d changes the data: the push effect runs again,
\* clearing its timer and arming a new one.
Edit(d) ==
    /\ Cardinality(made) < MaxEdits
    /\ LET e == Cardinality(made) + 1
       IN  /\ made' = made \cup {<<e, d>>}
           /\ Commit(cloud, [local EXCEPT ![d] = @ \cup {e}], lastSyncTime,
                     [pushTimer EXCEPT ![d] = TRUE], puts, polls, backup)
    /\ UNCHANGED syncStep
    /\ UNCHANGED nonSyncVars

\* The timeout of the push effect of device d fires: the state of its
\* closure is sent with updatedAt: Date.now(); offline, updateFamilyData
\* returns false at once.
PushFires(d, online) ==
    /\ pushTimer[d]
    /\ puts[d].stage = "none"
    /\ online => InFlight < MaxInFlight
    /\ Commit(cloud, local, lastSyncTime, [pushTimer EXCEPT ![d] = FALSE],
              IF online
              THEN [puts EXCEPT ![d] = [stage |-> "sent", kind |-> "push",
                                        data |-> local[d], updatedAt |-> Now]]
              ELSE puts,
              polls, backup)
    /\ UNCHANGED <<made, syncStep>>
    /\ UNCHANGED nonSyncVars

\* The PUT of device d reaches the storage service.
PutLands(d) ==
    /\ puts[d].stage = "sent"
    /\ Commit([data |-> puts[d].data, updatedAt |-> puts[d].updatedAt], local,
              lastSyncTime, pushTimer, [puts EXCEPT ![d].stage = "landed"], polls,
              backup)
    /\ UNCHANGED <<made, syncStep>>
    /\ UNCHANGED nonSyncVars

\* The PUT of device d fails with a network error: updateFamilyData keeps
\* the state as the local backup and returns false.
PutFails(d) ==
    /\ puts[d].stage = "sent"
    /\ Cardinality({e \in Devices : backup[e].exists}) < MaxBackups
    /\ Commit(cloud, local, lastSyncTime, pushTimer, [puts EXCEPT ![d] = NoPut], polls,
              [backup EXCEPT ![d] = [exists |-> TRUE, data |-> puts[d].data,
                                     updatedAt |-> puts[d].updatedAt]])
    /\ UNCHANGED <<made, syncStep>>
    /\ UNCHANGED nonSyncVars

\* updateFamilyData of device d returns true: the push effect sets
\* lastSyncTime to the updatedAt it sent; resetAllData leaves it alone.
PutAcked(d) ==
    /\ puts[d].stage = "landed"
    /\ IF puts[d].kind = "push"
       THEN /\ Commit(cloud, local, [lastSyncTime EXCEPT ![d] = puts[d].updatedAt],
                      pushTimer, [puts EXCEPT ![d] = NoPut], polls, backup)
            /\ syncStep' = IF puts[d].updatedAt >= lastSyncTime[d]
                           THEN "forward" ELSE "backward"
       ELSE /\ Commit(cloud, local, lastSyncTime, pushTimer,
                      [puts EXCEPT ![d] = NoPut], polls, backup)
            /\ UNCHANGED syncStep
    /\ UNCHANGED made
    /\ UNCHANGED nonSyncVars

\* The answer fetchFamilyData of device d gets: the blob, or on a network
\* error the local backup if there is one, else null (no snapshot).
Fetched(d, ok) ==
    IF ok THEN [stage |-> "read", snap |-> cloud]
    ELSE IF backup[d].exists
    THEN [stage |-> "read", snap |-> [data |-> backup[d].data,
                                      updatedAt |-> backup[d].updatedAt]]
    ELSE NoPoll

\* poll() of device d is called, by the interval or by the poll effect, and
\* its request is answered.  The closure of poll holds the lastSyncTime of
\* the render that created it, so the outcome of
\* data && data.updatedAt > lastSyncTime is decided here; a poll whose test
\* fails does nothing more and is not kept.
PollStart(d, ok) ==
    /\ polls[d].stage = "none"
    /\ InFlight < MaxInFlight
    /\ LET answer == Fetched(d, ok)
       IN  Commit(cloud, local, lastSyncTime, pushTimer, puts,
                  IF answer.stage = "read" /\ answer.snap.updatedAt > lastSyncTime[d]
                  THEN [polls EXCEPT ![d] = answer]
                  ELSE polls,
                  backup)
    /\ UNCHANGED <<made, syncStep>>
    /\ UNCHANGED nonSyncVars

\* poll() of device d after its await, its test passed: the snapshot
\* replaces the local data and lastSyncTime; the new arrays make the push
\* effect run again.
PollDone(d) ==
    /\ polls[d].stage = "read"
    /\ LET snap == polls[d].snap
       IN  /\ Commit(cloud, [local EXCEPT ![d] = snap.data],
                     [lastSyncTime EXCEPT ![d] = snap.updatedAt],
                     [pushTimer EXCEPT ![d] = TRUE], puts,
                     [polls EXCEPT ![d] = NoPoll], backup)
           /\ syncStep' = IF snap.updatedAt >= lastSyncTime[d]
                          THEN "forward" ELSE "backward"
    /\ UNCHANGED made
    /\ UNCHANGED nonSyncVars

\* resetAllData on device d, confirmed, up to its await: the local state is
\* emptied, lastSyncTime set to Date.now() and the empty state sent; offline,
\* updateFamilyData returns false at once.
ResetAllData(d, online) ==
    /\ puts[d].stage = "none"
    /\ online => InFlight < MaxInFlight
    /\ Commit(cloud, [local EXCEPT ![d] = {}], [lastSyncTime EXCEPT ![d] = Now],
              [pushTimer EXCEPT ![d] = TRUE],
              IF online
              THEN [puts EXCEPT ![d] = [stage |-> "sent", kind |-> "reset",
                                        data |-> {}, updatedAt |-> Now]]
              ELSE puts,
              polls, backup)
    /\ syncStep' = "forward"
    /\ UNCHANGED made
    /\ UNCHANGED nonSyncVars

\* Edits, debounced pushes and polls of the two devices.
SyncNext ==
    \/ \E d \in Devices : Edit(d)
    \/ \E d \in Devices, online \in BOOLEAN : PushFires(d, online)
    \/ \E d \in Devices : PutLands(d)
    \/ \E d \in Devices : PutFails(d)
    \/ \E d \in Devices : PutAcked(d)
    \/ \E d \in Devices, ok \in BOOLEAN : PollStart(d, ok)
    \/ \E d \in Devices : PollDone(d)

\* Two devices that stay online, with requests that succeed.
SyncLiveNext ==
    \/ \E d \in Devices : Edit(d)
    \/ \E d \in Devices : PushFires(d, TRUE)
    \/ \E d \in Devices : PutLands(d)
    \/ \E d \in Devices : PutAcked(d)
    \/ \E d \in Devices : PollStart(d, TRUE)
    \/ \E d \in Devices : PollDone(d)

\* An armed timeout fires, a request that was sent is answered, and the
\* 10 s interval keeps calling poll.
SyncFairness ==
    \A d \in Devices :
        /\ WF_vars(PushFires(d, TRUE))
        /\ WF_vars(PutLands(d))
        /\ WF_vars(PutAcked(d))
        /\ WF_vars(PollStart(d, TRUE))
        /\ WF_vars(PollDone(d))

\* The same with resets.
SyncResetNext ==
    \/ SyncNext
    \/ \E d \in Devices, online \in BOOLEAN : ResetAllData(d, online)

(***************************************************************************)
(* The updateInventory tool of App.handleVoiceToolUse.                     *)
(*                                                                         *)
(* A name is a sequence of characters.  Quantities are fixed-point         *)
(* numbers: the integer n stands for n / Milli.                            *)
(***************************************************************************)
Milli == 1000

MaxItems == 2        \* items in the inventory
MaxQuantity == 2000  \* largest quantity of an item, in units of 1/Milli

NotFound == -1

ItemNames == {<<>>, <<"a">>, <<"A", "b">>, <<"b">>, <<"c">>}

\* -2, -0.004, 0, 0.004 and 1.
QuantityChanges == {-2 * Milli, -4, 0, 4, Milli}

NoCall == [made |-> FALSE, itemName |-> <<>>, quantityChange |-> 0, before |-> <<>>]

ToLowerCase(name) ==
    [i \in 1..Len(name) |->
        IF name[i] = "A" THEN "a" ELSE IF name[i] = "B" THEN "b" ELSE name[i]]

\* String.prototype.includes.
Includes(hay, needle) ==
    \E k \in 0..(Len(hay) - Len(needle)) : SubSeq(hay, k + 1, k + Len(needle)) = needle

NameMatches(name, itemName) == Includes(ToLowerCase(name), ToLowerCase(itemName))

\* prev.findIndex(i => i.name.toLowerCase().includes(itemName.toLowerCase())).
FindIndex(prev, itemName) ==
    LET hits == {i \in 1..Len(prev) : NameMatches(prev[i].name, itemName)}
    IN  IF hits = {} THEN NotFound ELSE CHOOSE i \in hits : \A j \in hits : i <= j

\* parseFloat(q.toFixed(2)) for q >= 0: two decimals, half rounded up.
ToFixed2(q) == ((q + 5) \div 10) * 10

\* The setInventory updater without Math.max(0, ...).
UpdateInventory_NoClamp(prev, itemName, quantityChange) ==
    LET matchIndex == FindIndex(prev, itemName)
    IN  IF matchIndex = NotFound /\ quantityChange > 0
        THEN Append(prev, [name |-> itemName, quantity |-> quantityChange])
        ELSE IF matchIndex = NotFound
        THEN prev
        ELSE LET q == prev[matchIndex].quantity + quantityChange
             IN  [prev EXCEPT ![matchIndex].quantity =
                     IF q >= 0 THEN ToFixed2(q) ELSE -ToFixed2(-q)]

\* The setInventory updater of the updateInventory tool.
UpdateInventory(prev, itemName, quantityChange) ==
    LET matchIndex == FindIndex(prev, itemName)
    IN  IF matchIndex = NotFound /\ quantityChange > 0
        THEN Append(prev, [name |-> itemName, quantity |-> quantityChange])
        ELSE IF matchIndex = NotFound
        THEN prev
        ELSE [prev EXCEPT ![matchIndex].quantity =
                 ToFixed2(Max(0, prev[matchIndex].quantity + quantityChange))]

\* INITIAL_INVENTORY is empty.
InvInit ==
    /\ inventory = <<>>
    /\ lastCall = NoCall

\* handleVoiceToolUse("updateInventory", {itemName, quantityChange}).
UpdateInventoryCall(itemName, quantityChange) ==
    LET after == UpdateInventory(inventory, itemName, quantityChange)
    IN  /\ Len(after) <= MaxItems
        /\ \A i \in 1..Len(after) : after[i].quantity <= MaxQuantity
        /\ inventory' = after
        /\ lastCall' = [made |-> TRUE, itemName |-> itemName,
                        quantityChange |-> quantityChange, before |-> inventory]
        /\ UNCHANGED <<relayVars, toolVars, playVars, sessionVars, codecVars, syncVars>>

InventoryNext ==
    \E itemName \in ItemNames, quantityChange \in QuantityChanges :
        UpdateInventoryCall(itemName, quantityChange)

AppInit == SyncInit /\ InvInit

Init == RelayInit /\ ToolInit /\ PlayInit /\ SessionInit /\ CodecInit /\ AppInit

Next ==
    \/ RelayNext \/ RelayTurnsNext \/ ToolNext \/ ToolStopNext \/ PlayNext
    \/ SessionNext \/ VoiceNext \/ MonitorNext \/ StopNext \/ CodecNext
    \/ SyncResetNext \/ InventoryNext

Spec == Init /\ [][Next]_vars

SpecRelay == Init /\ [][RelayNext]_vars

SpecRelayTurns == Init /\ [][RelayTurnsNext]_vars

SpecTools == Init /\ [][ToolNext]_vars

SpecToolStop == Init /\ [][ToolStopNext]_vars

SpecPlayback == Init /\ [][PlayNext]_vars

SpecSession == Init /\ [][SessionNext]_vars

SpecMonitor == Init /\ [][MonitorNext]_vars

SpecVoice == Init /\ [][VoiceNext]_vars

SpecStop == Init /\ [][StopNext]_vars

SpecCodec == Init /\ [][CodecNext]_vars

SpecSync == Init /\ [][SyncNext]_vars

SpecSyncReset == Init /\ [][SyncResetNext]_vars

SpecInventory == Init /\ [][InventoryNext]_vars

SpecSyncLive == Init /\ [][SyncLiveNext]_vars /\ SyncFairness

(***************************************************************************)
(* Properties of the relay.                                                *)
(***************************************************************************)
Requests == 1..Len(tts)

\* The numbers of the deltas that make up the text of synthesis call k.
DeltasOf(k) == {tts[k].text[i].n : i \in 1..Len(tts[k].text)}

BufferDeltas == {spokenBuffer[i].n : i \in 1..Len(spokenBuffer)}

NoSynthesisInFlight == \A k \in Requests : ~Pending(k)

DoneSent(t) == \E i \in 1..Len(out) : out[i].type = "done" /\ out[i].turn = t

\* The turn is over: "done" was sent and no synthesis call is left in flight.
TurnSettled ==
    /\ streamState # <<>>
    /\ \A t \in 1..Len(streamState) : DoneSent(t)
    /\ NoSynthesisInFlight

\* C5: a synthesis request is issued at a sentence boundary only, and once the
\* request made at a boundary is over the spoken buffer is empty, so that with
\* no synthesis in flight the buffer never still ends in a sentence boundary.
C5_BoundaryFlushLeavesBufferEmpty ==
    /\ \A k \in Requests :
          tts[k].kind = "chunk" => SentenceEnd(BufText(tts[k].text))
    /\ NoSynthesisInFlight => ~SentenceEnd(BufText(spokenBuffer))

\* The deltas sent to the client that are more than whitespace.
SpokenDeltas ==
    {out[i].n : i \in {j \in 1..Len(out) :
                          out[j].type = "delta" /\ Trim(out[j].payload) # <<>>}}

\* C6: flushing is atomic with respect to appends: no delta is in the text of
\* two synthesis requests, and once the turn is over every delta of the turn
\* (whitespace left aside, which the end of turn drops) is in the text of one.
C6_EveryDeltaInExactlyOneRequest ==
    /\ \A j, k \in Requests : j # k => DeltasOf(j) \cap DeltasOf(k) = {}
    /\ TurnSettled => \A n \in SpokenDeltas : \E k \in Requests : n \in DeltasOf(k)

\* C7: at the end of the stream one final request is issued exactly when the
\* buffer is non-empty after trimming, for the buffer's text; "done" is sent at
\* once when it is empty, and otherwise when that request is over, after its
\* audio and with the buffer cleared; "done" is sent once.
StreamEnds(t) == streamState[t] = "open" /\ streamState'[t] = "ended"

DoneNow(t) ==
    /\ Len(out') > Len(out)
    /\ out'[Len(out')] = Msg("done", t, 0, <<>>)

C7_EndStep ==
    \A t \in 1..Len(streamState) :
        /\ StreamEnds(t) =>
              IF Trim(BufText(spokenBuffer)) # <<>>
              THEN /\ tts' = Append(tts, [kind |-> "end", turn |-> t,
                                          text |-> spokenBuffer,
                                          status |-> "pending"])
                   /\ out' = out
              ELSE /\ tts' = tts
                   /\ out' = Append(out, Msg("done", t, 0, <<>>))
        /\ (DoneNow(t) /\ ~StreamEnds(t)) =>
              \E k \in Requests :
                  /\ tts[k].kind = "end" /\ tts[k].turn = t
                  /\ Pending(k) /\ ~Pending(k)'
                  /\ spokenBuffer' = <<>>
                  /\ IF tts'[k].status = "ok"
                     THEN out' = out \o << Msg("audio", t, k, <<>>),
                                           Msg("done", t, 0, <<>>) >>
                     ELSE out' = Append(out, Msg("done", t, 0, <<>>))

C7_EndState ==
    \A t \in 1..Len(streamState) :
        /\ Cardinality({i \in 1..Len(out) :
                           out[i].type = "done" /\ out[i].turn = t}) <= 1
        /\ Cardinality({k \in Requests :
                           tts[k].kind = "end" /\ tts[k].turn = t}) <= 1
        /\ DoneSent(t) =>
              /\ streamState[t] = "ended"
              /\ \A k \in Requests :
                    (tts[k].kind = "end" /\ tts[k].turn = t) => ~Pending(k)
        /\ \A k \in Requests :
              (tts[k].kind = "end" /\ tts[k].turn = t) => streamState[t] = "ended"

C7_EndOfTurnFlush == [](C7_EndState) /\ [][C7_EndStep]_vars

\* "done" has been sent after a final request that was issued and answered
\* while a sentence-boundary synthesis call was, and still is, in flight.
C7_Witness ==
    /\ DoneSent(1)
    /\ \E k \in Requests : tts[k].kind = "end" /\ tts[k].status = "ok"
    /\ \E k \in Requests : tts[k].kind = "chunk" /\ Pending(k)

\* C9: the audio messages are sent in the order in which their synthesis
\* requests were issued.
C9_AudioInRequestOrder ==
    \A i, j \in 1..Len(out) :
        (i < j /\ out[i].type = "audio" /\ out[j].type = "audio")
            => out[i].n < out[j].n

\* C10: when the synthesis of a sentence chunk fails the buffer is cleared,
\* so the buffer never holds text whose synthesis has failed.
FailedDeltas ==
    UNION {DeltasOf(k) : k \in {r \in Requests : tts[r].status = "failed"}}

C10_FailedTextLeavesBuffer == BufferDeltas \cap FailedDeltas = {}

FailedRequests == {k \in Requests : tts[k].status = "failed"}

SynthesisErrors ==
    {i \in 1..Len(out) : out[i].type = "error" /\ out[i].payload = <<"TTS failed">>}

\* C11: a synthesis call that failed, for a mid-turn sentence or for the
\* end-of-turn remainder, is reported to the client: there is one
\* "TTS failed" error message per failed call.
C11_SynthesisFailureReported ==
    Cardinality(SynthesisErrors) = Cardinality(FailedRequests)

(***************************************************************************)
(* Properties of the tool dispatch.                                        *)
(***************************************************************************)
\* Every function response handed to the transport, in order.
Responses == Concat(sent)

ResponsesFor(id) == {j \in 1..Len(Responses) : Responses[j].id = id}

ClientCalls == {i \in 1..Len(calls) : calls[i].via \in {"sdk", "ws"}}

\* The client is through with call i: its response was sent with its batch,
\* or its callback was invoked with nothing awaiting the outcome.
Handled(i) == calls[i].status \in {"answered", "dropped"}

\* C1: every tool call the client receives gets exactly one response with
\* its call id: never more than one, and one once the client is through with
\* the call.
C1_ExactlyOneResponsePerCall ==
    \A i \in ClientCalls :
        /\ Cardinality(ResponsesFor(calls[i].id)) <= 1
        /\ Handled(i) => Cardinality(ResponsesFor(calls[i].id)) = 1

\* C2: the response sent for a call whose host callback failed carries the
\* error payload { error: message } with the failure's message.
C2_FailureAnsweredWithErrorMessage ==
    \A i \in ClientCalls : \A j \in ResponsesFor(calls[i].id) :
        calls[i].outcome.threw =>
            Responses[j].response.result = ErrorPayload(calls[i].outcome.value)

\* C3: the response sent for a call whose name is no known tool carries the
\* error "unknown tool", and no such call is reported as carried out.
C3_UnknownToolAnsweredWithError ==
    /\ \A j \in 1..Len(Responses) :
          Responses[j].name \notin KnownTools =>
              Responses[j].response.result = ErrorPayload("unknown tool")
    /\ \A j \in 1..Len(transcripts) :
          transcripts[j].kind = "done" => transcripts[j].name \in KnownTools

\* C4: the calls of one message are all started on receipt, none waiting for
\* another, and whatever the completion order each response carries the id
\* and the name of one call together with the result of that call's callback.
SdkCalls == {i \in 1..Len(calls) : calls[i].via = "sdk"}

C4_ConcurrentDispatchOwnResult ==
    /\ \A i \in SdkCalls : calls[i].status \in {"running", "settled", "answered"}
    /\ \A j \in 1..Len(Responses) :
          \E i \in SdkCalls :
              /\ calls[i].id = Responses[j].id
              /\ calls[i].name = Responses[j].name
              /\ calls[i].status = "answered"
              /\ Responses[j].response.result =
                     MapperResult(WrapperResult(HandleVoiceToolUse(calls[i].name, calls[i].args)))
    /\ \A i \in SdkCalls :
          calls[i].status = "answered" => Cardinality(ResponsesFor(calls[i].id)) = 1

\* A message of two calls with different inputs has been answered after the
\* second call completed before the first.
C4_Witness ==
    \E a, b \in SdkCalls :
        /\ a < b /\ calls[a].msg = calls[b].msg
        /\ calls[a].status = "answered" /\ calls[b].status = "answered"
        /\ calls[a].result # calls[b].result
        /\ \E x, y \in 1..Len(completed) :
              x < y /\ completed[x] = b /\ completed[y] = a

(***************************************************************************)
(* Properties of the playback scheduling.                                  *)
(***************************************************************************)
EndOf(j) == scheduled[j].start + scheduled[j].duration

PreviousEnd(j) == IF j = 1 THEN 0 ELSE EndOf(j - 1)

\* C8: every chunk is scheduled at the later of the clock time at which it
\* arrived and the end of the chunk scheduled before it, so that the start
\* times never decrease, follow the order of arrival and no two scheduled
\* chunks overlap.
C8_PlaybackSchedule ==
    /\ \A j \in 1..Len(scheduled) :
          scheduled[j].start = Max(scheduled[j].at, PreviousEnd(j))
    /\ \A i, j \in 1..Len(scheduled) :
          i < j => /\ scheduled[i].chunk < scheduled[j].chunk
                   /\ scheduled[i].start <= scheduled[j].start
                   /\ EndOf(i) <= scheduled[j].start

\* Three chunks are scheduled, one right at the end of its predecessor and
\* one at the clock time, later than the end of its predecessor.
C8_Witness ==
    /\ Len(scheduled) >= 3
    /\ \E j \in 2..Len(scheduled) : scheduled[j].start = EndOf(j - 1) /\ scheduled[j].at < EndOf(j - 1)
    /\ \E j \in 2..Len(scheduled) : scheduled[j].start > EndOf(j - 1)

ScheduledChunks == {scheduled[j].chunk : j \in 1..Len(scheduled)}

\* The frames whose onAudioData call is over.
HandledFrames == {i \in 1..Len(frames) : i # decoding.chunk}

C15_State ==
    /\ \A i \in 1..Len(frames) : frames[i] = 0 => i \notin ScheduledChunks
    /\ \A i \in HandledFrames : frames[i] > 0 => i \in ScheduledChunks
    /\ \A j \in 1..Len(scheduled), k \in 1..Len(scheduled) :
           j < k => scheduled[j].chunk < scheduled[k].chunk

Stopped ==
    /\ sessionRef = NoRef
    /\ streamRef = NoRef
    /\ ~isConnected
    /\ StartsInFlight = {}

LiveStreams == {i \in 1..Len(streams) : streams[i] = "live"}

OpenTransports == {c \in 1..Len(conns) : conns[c] \in {"connecting", "open"}}

\* C12: once the session is stopped, by one or by several calls of
\* disconnect(), every microphone track is stopped, the transport is closed
\* and its handle cleared, the animation loop is cancelled and no timer is
\* left armed, the silence timer included.  Stated for a component whose
\* session was started at most once.
C12_StopReleasesEverything ==
    (Stopped /\ Len(starts) <= 1) =>
        /\ LiveStreams = {}
        /\ \A c \in 1..Len(conns) : conns[c] = "closed"
        /\ ~animating
        /\ silenceTimeoutRef = NoTimer

OpenContexts == {c \in 1..Len(contexts) : contexts[c].state # "closed"}

\* C13: when the only start of the component has failed, at whatever step,
\* the session is not connected and nothing acquired before the failure is
\* still held: no live microphone stream, no open audio context, no open
\* transport.
C13_FailedStartHoldsNothing ==
    (Len(starts) = 1 /\ starts[1].pc = "failed") =>
        /\ ~isConnected
        /\ LiveStreams = {}
        /\ OpenContexts = {}
        /\ OpenTransports = {}

(***************************************************************************)
(* Properties of the codec.                                                *)
(***************************************************************************)
Clamped(n) == Max(-One, Min(One, n))

\* C14: a sample encoded to 16-bit PCM and decoded back is within 1/32768
\* of the sample clamped to [-1, 1]; in particular a sample of 1.0 or more
\* does not decode to a negative value.
C14_CodecRoundTrip ==
    decoded # <<>> =>
        /\ Abs(decoded[1] - Clamped(sample)) <= SubSteps
        /\ sample >= One => decoded[1] >= 0

\* C16: a mounted component has at most one open transport and at most one
\* live microphone stream, whatever starts and stops were requested.
C16_SingleSession ==
    mounted =>
        /\ Cardinality(LiveStreams) <= 1
        /\ Cardinality(OpenTransports) <= 1

\* The transports that are closed; an errored transport becomes one of them
\* with the close event that follows the error.
EndedTransports == {c \in 1..Len(conns) : conns[c] = "closed"}

\* C17: once the transport of the session has ended, by a stop, a remote
\* close or a transport error, the client is not connected, the microphone
\* is released and the transport handle is cleared, and no transport is
\* opened without a new start.  Stated for a component whose session was
\* started once.
C17_EndedTransportEndsSession ==
    /\ Len(conns) <= Len(starts)
    /\ (Len(starts) = 1 /\ EndedTransports # {}) =>
           /\ ~isConnected
           /\ sessionRef = NoRef
           /\ LiveStreams = {}

(***************************************************************************)
(* Properties of the interaction state.                                    *)
(***************************************************************************)
\* C18: the interaction state is the one the session's most recent pair of
\* loudness measurements gives: speaking when the output is above its
\* threshold, whatever the input; listening when only the input is above
\* its threshold; idle when neither is, and idle as long as the session has
\* measured nothing.
C18_StateFollowsLastMeasure ==
    LET inVol == lastMeasure[1]
        outVol == lastMeasure[2]
    IN  /\ lastMeasure = NoMeasure => interactionState = "idle"
        /\ lastMeasure # NoMeasure =>
              /\ outVol > OutputThreshold => interactionState = "speaking"
              /\ (outVol <= OutputThreshold /\ inVol > InputThreshold)
                    => interactionState = "listening"
              /\ (outVol <= OutputThreshold /\ inVol <= InputThreshold)
                    => interactionState = "idle"

\* Both levels above their thresholds: speaking wins.
C18_Witness ==
    /\ lastMeasure = <<InputThreshold + 1, OutputThreshold + 1>>
    /\ interactionState = "speaking"

(***************************************************************************)
(* Properties of the silence timer.                                        *)
(***************************************************************************)
\* C19: an end-of-turn hint is emitted only when the input was above the
\* threshold in an earlier window of the session and has been below it ever
\* since, for the whole silence duration.
C19_HintOnlyAfterVoiceThenSilence ==
    lastHint # NoHint => lastHint >= SilenceMs

(***************************************************************************)
(* Properties of the transcript.                                           *)
(***************************************************************************)
DeltaTexts == [i \in 1..Len(out) |-> IF out[i].type = "delta" THEN out[i].payload ELSE <<>>]

DoneMessages == {i \in 1..Len(out) : out[i].type = "done"}

\* C20: the assistant's transcript entry is the text of the turn's deltas
\* put together in arrival order, at every moment and so when "done"
\* arrives; the turn produces one "done", after all its deltas.
C20_TranscriptAccumulates ==
    /\ WsTranscripts(out) =
           IF NumDeltas = 0 THEN <<>>
           ELSE << [user |-> FALSE, text |-> Concat(DeltaTexts)] >>
    /\ Cardinality(DoneMessages) <= 1
    /\ \A i \in DoneMessages : \A j \in 1..Len(out) : out[j].type = "delta" => j < i
    /\ \A t \in 1..Len(streamState) :
           (streamState[t] = "ended" /\ NoSynthesisInFlight) => DoneSent(t)

C20_Witness ==
    /\ DoneMessages # {}
    /\ NumDeltas >= 2

(***************************************************************************)
(* Properties of stopping.                                                 *)
(***************************************************************************)
RunningProcessors == {c \in 1..Len(contexts) : ProcessorRunning(c)}

\* C21: when the component has been unmounted (its cleanup called
\* disconnect() and no start can be requested any more) and every step of
\* its one startSession call has run, no microphone stream is live, no
\* transport is open, no audio processor is running and no animation frame
\* is pending.
C21_StopDuringStartReleasesEverything ==
    (variant # "none" /\ ~mounted /\ Len(starts) = 1 /\ StartsInFlight = {}) =>
        /\ LiveStreams = {}
        /\ OpenTransports = {}
        /\ RunningProcessors = {}
        /\ ~animating

(***************************************************************************)
(* Properties of the relay over several turns.                             *)
(***************************************************************************)
\* C22: the deltas, audio and "done" of two turns are never interleaved:
\* everything the relay sends for a turn comes before everything it sends
\* for a later turn.
C22_TurnsNotInterleaved ==
    LET TurnMessages == {i \in 1..Len(out) : out[i].type \in {"delta", "audio", "done"}}
    IN  \A i \in TurnMessages, j \in TurnMessages :
            i < j => out[i].turn <= out[j].turn

(***************************************************************************)
(* Properties of the outbound audio.                                       *)
(***************************************************************************)
\* C23: no audio frame is ever sent on a transport that is not yet open or
\* that is already closed.
C23_NoFrameOnClosedTransport == lastSend \notin {"connecting", "closed"}

(***************************************************************************)
(* Properties of playback across a stop.                                   *)
(***************************************************************************)
\* The sources that are scheduled or playing: started, neither stopped nor
\* ended, on a context that is not closed.
PlayingSources ==
    {i \in 1..Len(sources) : /\ sources[i].state = "scheduled"
                             /\ contexts[sources[i].ctx].state # "closed"}

\* C24: once the component has been unmounted (its cleanup called
\* disconnect() and no start can follow), no source is scheduled or playing
\* and the in-flight set is empty.
C24_StopCancelsPlayback ==
    (variant # "none" /\ ~mounted) => (PlayingSources = {} /\ sourcesRef = {})

\* C25: the end-of-turn hint is emitted at most once in one continuous
\* silence: after a hint, none follows until a window of the input is above
\* the threshold again.
C25_OneHintPerSilence == hints <= 1

C27_SyncOnlyMovesForward == syncStep # "backward"

\* C28: an edit the user made on a device is never discarded by a poll: it
\* is in that device's local data, in the cloud state, or in a PUT of that
\* device on its way to the cloud.
C28_UnpushedEditSurvivesPoll ==
    \A p \in made :
        \/ p[1] \in local[p[2]]
        \/ p[1] \in cloud.data
        \/ puts[p[2]].stage = "sent" /\ p[1] \in puts[p[2]].data

\* No device has a push under way: no push timer is armed and no PUT is in
\* flight.
Quiescent == \A d \in Devices : ~pushTimer[d] /\ puts[d].stage = "none"

\* C29: with both devices online, the devices eventually stop pushing, once
\* the user's edits are over.
C29_SyncQuiesces == <>[]Quiescent

(***************************************************************************)
(* Properties of the updateInventory tool.                                 *)
(***************************************************************************)
\* The items of inv whose name matches the name given to the tool.
Matching(inv, itemName) ==
    {i \in 1..Len(inv) : NameMatches(inv[i].name, itemName)}

\* C30: after any sequence of updateInventory calls every item has a
\* quantity of at least 0; a call with a quantity change that is not
\* positive creates no item; a call whose name matches no item changes the
\* inventory only if its quantity change is positive, and then by appending
\* exactly one item.
C30_UpdateInventory ==
    /\ \A i \in 1..Len(inventory) : inventory[i].quantity >= 0
    /\ lastCall.made =>
        /\ lastCall.quantityChange <= 0 => Len(inventory) = Len(lastCall.before)
        /\ Matching(lastCall.before, lastCall.itemName) = {} =>
              IF lastCall.quantityChange > 0
              THEN /\ Len(inventory) = Len(lastCall.before) + 1
                   /\ SubSeq(inventory, 1, Len(lastCall.before)) = lastCall.before
              ELSE inventory = lastCall.before

\* A consumption larger than the stock of the matching item has been
\* clamped to 0.
C30_Witness ==
    /\ lastCall.made
    /\ lastCall.quantityChange < 0
    /\ \E i \in Matching(lastCall.before, lastCall.itemName) :
          /\ lastCall.before[i].quantity > 0
          /\ lastCall.before[i].quantity + lastCall.quantityChange < 0
          /\ inventory[i].quantity = 0

====
